---- MODULE Spec2Model ----
(***************************************************************************)
(* State-machine model of the crawl service: the in-memory task registry   *)
(* (src/main.py crawl_tasks), the submission handler, the background crawl *)
(* runner, the read handlers, and the vector-store facade of               *)
(* src/crawler.py as seen through the HTTP handlers.                       *)
(*                                                                         *)
(* Conventions.                                                            *)
(*  - A Python dict is a function whose DOMAIN is the set of keys present. *)
(*  - Optional[int] is a sequence: <<>> is None, <<n>> is the integer n.   *)
(*  - A string the code only stores or prints is a TLA+ string; a string   *)
(*    the code parses (the crawl summary, the submitted url) is a sequence *)
(*    of tokens, so that formatting and parsing are computed.              *)
(*  - `response` is the HTTP response produced by the step just taken, or  *)
(*    NoResponse when the step was not a request handler.                  *)
(*  - `submissions` counts the submissions answered 200 (a history        *)
(*    variable: no code reads it).                                        *)
(*  - uuid.uuid4() is modelled as a draw among the identifiers not yet in  *)
(*    the registry (122 random bits: collisions are not modelled).         *)
(***************************************************************************)
EXTENDS Integers, Sequences, FiniteSets, TLC

VARIABLES crawl_tasks, background, crawl_call, response, submissions

vars == <<crawl_tasks, background, crawl_call, response, submissions>>

----------------------------------------------------------------------------
(* Bounds of the model *)

\* number of task identifiers uuid4 can draw, hence of submissions
MaxTasks == 2
\* longest collaborator summary (in tokens) fed to the runner's page-count parse
MaxSummaryLen == 6
\* most hits the vector store returns to one query
MaxHits == 2

(* Program constants *)

\* the literal 1 of `1 - dist`, distances being counted in hundredths
One == 100

\* CrawlRequest.max_depth default
DefaultMaxDepth == 2
\* QueryRequest.n_results default
DefaultNResults == 5
\* query_chromadb: documents longer than this are truncated in the preview
PreviewLen == 300

TaskIds == 1..MaxTasks
\* datetime.now().isoformat(): the instant the clock is read at (the claims
\* concern the presence of the stamps, never their values)
Times == {"2025-01-01T10:00:00"}
None == <<>>
Some(x) == <<x>>

----------------------------------------------------------------------------
(* Python dict helpers *)

\* d.update(new): keys of new are written, the others are kept
DictUpdate(d, new) ==
    [k \in (DOMAIN d) \cup (DOMAIN new) |-> IF k \in DOMAIN new THEN new[k] ELSE d[k]]

\* {"task_id": task_id, **task_info}
WithTaskId(task_id, task_info) ==
    [k \in {"task_id"} \cup DOMAIN task_info |->
        IF k \in DOMAIN task_info THEN task_info[k] ELSE task_id]

\* m with key k bound to v (m[k] = v on a dict that may lack k)
Put(m, k, v) == [x \in (DOMAIN m) \cup {k} |-> IF x = k THEN v ELSE m[x]]

EmptyDict == [x \in {} |-> TRUE]

NoResponse == [endpoint |-> "none"]

----------------------------------------------------------------------------
(* Submitted urls and pydantic's HttpUrl *)

\* a url is the token sequence <<scheme, "://", host>>; anything else is text
\* without a scheme
Urls ==
    { <<"https", "://", "example.com">>,
      <<"ftp", "://", "example.com">>,
      <<"http", "://", "">>,
      <<"not-a-url">> }

\* an absolute url with a scheme and an authority
WellFormedAbsolute(u) == Len(u) = 3 /\ u[2] = "://" /\ u[1] # "" /\ u[3] # ""

\* (mutation of HttpUrlValid: the url field typed str, any text passes)
HttpUrlAnyText(u) == Len(u) >= 1

\* url: HttpUrl  -- pydantic accepts http and https urls with a host
HttpUrlValid(u) ==
    /\ Len(u) = 3
    /\ u[2] = "://"
    /\ u[1] \in {"http", "https"}
    /\ u[3] # ""

CollectionNames == {"web_content", "docs"}

\* JSON bodies of POST /crawl: url, and optionally collection_name
CrawlBodies ==
    { [url |-> u] : u \in Urls }
    \cup { [url |-> u, collection_name |-> "docs"] : u \in Urls }

\* CrawlRequest(**body): the defaults of the model class fill the missing fields
CrawlRequest(body) ==
    [ url |-> body.url,
      pattern |-> IF "pattern" \in DOMAIN body THEN body.pattern ELSE "*",
      max_depth |-> IF "max_depth" \in DOMAIN body THEN body.max_depth ELSE DefaultMaxDepth,
      collection_name |-> IF "collection_name" \in DOMAIN body
                          THEN body.collection_name ELSE "web_content" ]

----------------------------------------------------------------------------
(* The crawl summary: formatting (crawler.py) and parsing (main.py) *)

PREFIX == "Successfully crawled "
PAGES == " pages"
DigitChars == <<"0", "1", "2", "3", "4", "5", "6", "7", "8", "9">>
IsDigit(c) == \E d \in 1..10 : DigitChars[d] = c
DigitVal(c) == (CHOOSE d \in 1..10 : DigitChars[d] = c) - 1

\* f"{counter}": the decimal digits of a natural number
RECURSIVE Decimal(_)
Decimal(n) == IF n < 10 THEN <<DigitChars[n + 1]>>
              ELSE Decimal(n \div 10) \o <<DigitChars[(n % 10) + 1]>>

\* the value crawl_website returns for `counter` pages
CrawlSummary(counter, collection_name) ==
    <<PREFIX>> \o Decimal(counter)
      \o <<PAGES, " and saved to ChromaDB collection '", collection_name, "'">>

\* int(s) for a string of decimal digits
RECURSIVE IntOf(_)
IntOf(s) == IF s = <<>> THEN 0
            ELSE 10 * IntOf(SubSeq(s, 1, Len(s) - 1)) + DigitVal(s[Len(s)])

\* the end of the longest run of digits that starts at position i (i - 1 if none)
RECURSIVE DigitRunEnd(_, _)
DigitRunEnd(s, i) == IF i <= Len(s) /\ IsDigit(s[i]) THEN DigitRunEnd(s, i + 1) ELSE i - 1

\* whether r"Successfully crawled (\d+) pages" matches at position i
MatchesAt(s, i) ==
    /\ s[i] = PREFIX
    /\ LET e == DigitRunEnd(s, i + 1)
       IN  e >= i + 1 /\ e + 1 <= Len(s) /\ s[e + 1] = PAGES

\* re.search: the leftmost position where the pattern matches, 0 for no match
RECURSIVE SearchFrom(_, _)
SearchFrom(s, i) == IF i > Len(s) THEN 0
                    ELSE IF MatchesAt(s, i) THEN i
                    ELSE SearchFrom(s, i + 1)

\* (mutation of PagesCrawled: a summary without the phrase counts as 0 pages)
PagesCrawledOrZero(result) ==
    LET i == SearchFrom(result, 1)
    IN  IF i = 0 THEN Some(0)
        ELSE Some(IntOf(SubSeq(result, i + 1, DigitRunEnd(result, i + 1))))

\* pages_crawled = int(pages_match.group(1)) if pages_match else None
PagesCrawled(result) ==
    LET i == SearchFrom(result, 1)
    IN  IF i = 0 THEN None
        ELSE Some(IntOf(SubSeq(result, i + 1, DigitRunEnd(result, i + 1))))

----------------------------------------------------------------------------
(* The crawl collaborator, crawl_website, as the runner sees it *)

\* page counters a crawl can end with
PageCounts == {0, 42}

\* str(e) of the exceptions a crawl can raise
CrawlErrors == {"network error", "storage error"}

----------------------------------------------------------------------------
Init ==
    /\ crawl_tasks = EmptyDict
    /\ background = EmptyDict
    /\ crawl_call = EmptyDict
    /\ response = NoResponse
    /\ submissions = 0

\* POST /crawl with a body that fails CrawlRequest validation: FastAPI answers
\* 422 and the handler body never runs
start_crawl_rejected(body) ==
    /\ ~HttpUrlValid(body.url)
    /\ response' = [endpoint |-> "start_crawl", request |-> body, status_code |-> 422]
    /\ UNCHANGED <<crawl_tasks, background, crawl_call, submissions>>

\* (mutation of start_crawl: the record is not fresh -- the identifier drawn
\* may already be in the registry, whose record is then overwritten)
start_crawl_colliding(body, task_id, now) ==
    /\ HttpUrlValid(body.url)
    /\ LET crawl_request == CrawlRequest(body)
       IN  /\ crawl_tasks' = Put(crawl_tasks, task_id,
                                 [ url |-> crawl_request.url,
                                   collection_name |-> crawl_request.collection_name,
                                   status |-> "pending",
                                   start_time |-> now ])
           /\ background' = Put(background, task_id,
                                [ pc |-> "scheduled",
                                  url |-> crawl_request.url,
                                  pattern |-> crawl_request.pattern,
                                  max_depth |-> crawl_request.max_depth,
                                  collection_name |-> crawl_request.collection_name ])
           /\ response' = [ endpoint |-> "start_crawl",
                            request |-> body,
                            status_code |-> 200,
                            body |-> [ task_id |-> task_id,
                                       message |-> <<"Crawling started for ", crawl_request.url,
                                                     crawl_request.max_depth,
                                                     crawl_request.collection_name>>,
                                       status |-> "pending" ] ]
    /\ submissions' = submissions + 1
    /\ UNCHANGED crawl_call

\* (mutation of start_crawl: the record is left for the runner to create, so
\* the identifier is returned before any record exists)
start_crawl_unregistered(body, task_id, now) ==
    /\ HttpUrlValid(body.url)
    /\ task_id \notin DOMAIN background
    /\ LET crawl_request == CrawlRequest(body)
       IN  /\ background' = Put(background, task_id,
                                [ pc |-> "scheduled",
                                  url |-> crawl_request.url,
                                  pattern |-> crawl_request.pattern,
                                  max_depth |-> crawl_request.max_depth,
                                  collection_name |-> crawl_request.collection_name ])
           /\ response' = [ endpoint |-> "start_crawl",
                            request |-> body,
                            status_code |-> 200,
                            body |-> [ task_id |-> task_id,
                                       message |-> <<"Crawling started for ", crawl_request.url,
                                                     crawl_request.max_depth,
                                                     crawl_request.collection_name>>,
                                       status |-> "pending" ] ]
    /\ submissions' = submissions + 1
    /\ UNCHANGED <<crawl_tasks, crawl_call>>

\* (mutation of start_crawl: an admission limit -- a submission is taken only
\* while no task is in_progress)
start_crawl_limited(body, task_id, now) ==
    /\ HttpUrlValid(body.url)
    /\ task_id \notin DOMAIN crawl_tasks
    /\ \A t \in DOMAIN crawl_tasks : crawl_tasks[t].status # "in_progress"
    /\ LET crawl_request == CrawlRequest(body)
       IN  /\ crawl_tasks' = Put(crawl_tasks, task_id,
                                 [ url |-> crawl_request.url,
                                   collection_name |-> crawl_request.collection_name,
                                   status |-> "pending",
                                   start_time |-> now ])
           /\ background' = Put(background, task_id,
                                [ pc |-> "scheduled",
                                  url |-> crawl_request.url,
                                  pattern |-> crawl_request.pattern,
                                  max_depth |-> crawl_request.max_depth,
                                  collection_name |-> crawl_request.collection_name ])
           /\ response' = [ endpoint |-> "start_crawl",
                            request |-> body,
                            status_code |-> 200,
                            body |-> [ task_id |-> task_id,
                                       message |-> <<"Crawling started for ", crawl_request.url,
                                                     crawl_request.max_depth,
                                                     crawl_request.collection_name>>,
                                       status |-> "pending" ] ]
    /\ submissions' = submissions + 1
    /\ UNCHANGED crawl_call

\* POST /crawl, the handler body; task_id is the uuid4 drawn, now the clock
start_crawl(body, task_id, now) ==
    /\ HttpUrlValid(body.url)
    /\ task_id \notin DOMAIN crawl_tasks
    /\ LET crawl_request == CrawlRequest(body)
       IN  /\ crawl_tasks' = Put(crawl_tasks, task_id,
                                 [ url |-> crawl_request.url,
                                   collection_name |-> crawl_request.collection_name,
                                   status |-> "pending",
                                   start_time |-> now ])
           /\ background' = Put(background, task_id,
                                [ pc |-> "scheduled",
                                  url |-> crawl_request.url,
                                  pattern |-> crawl_request.pattern,
                                  max_depth |-> crawl_request.max_depth,
                                  collection_name |-> crawl_request.collection_name ])
           /\ response' = [ endpoint |-> "start_crawl",
                            request |-> body,
                            status_code |-> 200,
                            body |-> [ task_id |-> task_id,
                                       message |-> <<"Crawling started for ", crawl_request.url,
                                                     crawl_request.max_depth,
                                                     crawl_request.collection_name>>,
                                       status |-> "pending" ] ]
    /\ submissions' = submissions + 1
    /\ UNCHANGED crawl_call

\* (mutation of crawl_task_start: the runner is run again for a task whose
\* run has already begun or ended)
crawl_task_start_again(task_id) ==
    /\ task_id \in DOMAIN background
    /\ crawl_tasks' = [crawl_tasks EXCEPT ![task_id] = Put(@, "status", "in_progress")]
    /\ crawl_call' = Put(crawl_call, task_id, [state |-> "running"])
    /\ background' = [background EXCEPT ![task_id].pc = "awaiting"]
    /\ response' = NoResponse
    /\ UNCHANGED submissions

\* (mutation of crawl_task_start: one runner at a time, a runner starts only
\* when no other runner is awaiting its collaborator)
crawl_task_start_serial(task_id) ==
    /\ task_id \in DOMAIN background
    /\ background[task_id].pc = "scheduled"
    /\ \A u \in DOMAIN background \ {task_id} : background[u].pc # "awaiting"
    /\ crawl_tasks' = [crawl_tasks EXCEPT ![task_id] = Put(@, "status", "in_progress")]
    /\ crawl_call' = Put(crawl_call, task_id, [state |-> "running"])
    /\ background' = [background EXCEPT ![task_id].pc = "awaiting"]
    /\ response' = NoResponse
    /\ UNCHANGED submissions

\* (mutation of crawl_task_start: the runner stores a new record holding only
\* the status, in place of setting the status key of the existing record)
crawl_task_start_replacing(task_id) ==
    /\ task_id \in DOMAIN background
    /\ background[task_id].pc = "scheduled"
    /\ crawl_tasks' = [crawl_tasks EXCEPT ![task_id] = [status |-> "in_progress"]]
    /\ crawl_call' = Put(crawl_call, task_id, [state |-> "running"])
    /\ background' = [background EXCEPT ![task_id].pc = "awaiting"]
    /\ response' = NoResponse
    /\ UNCHANGED submissions

\* crawl_task up to its await: the record goes in_progress and the collaborator
\* is called
crawl_task_start(task_id) ==
    /\ task_id \in DOMAIN background
    /\ background[task_id].pc = "scheduled"
    /\ crawl_tasks' = [crawl_tasks EXCEPT ![task_id] = Put(@, "status", "in_progress")]
    /\ crawl_call' = Put(crawl_call, task_id, [state |-> "running"])
    /\ background' = [background EXCEPT ![task_id].pc = "awaiting"]
    /\ response' = NoResponse
    /\ UNCHANGED submissions

\* the collaborator returns `result`; the runner resumes, parses the page
\* count and completes the record
crawl_task_returned(task_id, result, now) ==
    /\ task_id \in DOMAIN background
    /\ background[task_id].pc = "awaiting"
    /\ crawl_call[task_id].state = "running"
    /\ crawl_call' = [crawl_call EXCEPT ![task_id] = [state |-> "returned", result |-> result]]
    /\ crawl_tasks' = [crawl_tasks EXCEPT ![task_id] =
                          DictUpdate(@, [ status |-> "completed",
                                          finish_time |-> now,
                                          pages_crawled |-> PagesCrawled(result) ])]
    /\ background' = [background EXCEPT ![task_id].pc = "done"]
    /\ response' = NoResponse
    /\ UNCHANGED submissions

\* crawl_website ran to its return statement after `counter` pages
crawl_website_returns(task_id, counter, now) ==
    /\ task_id \in DOMAIN background
    /\ \E result \in { CrawlSummary(counter, background[task_id].collection_name) } :
          crawl_task_returned(task_id, result, now)

\* (mutation of crawl_task_raised: no except branch -- the exception leaves
\* crawl_task and the record is not written)
crawl_task_raised_uncaught(task_id, e, now) ==
    /\ task_id \in DOMAIN background
    /\ background[task_id].pc = "awaiting"
    /\ crawl_call[task_id].state = "running"
    /\ crawl_call' = [crawl_call EXCEPT ![task_id] = [state |-> "raised", exc |-> e]]
    /\ background' = [background EXCEPT ![task_id].pc = "crashed"]
    /\ response' = NoResponse
    /\ UNCHANGED <<crawl_tasks, submissions>>

\* (mutation of crawl_task_raised: the failure is recorded on every record
\* that is in progress, not only on the runner's own)
crawl_task_raised_all(task_id, e, now) ==
    /\ task_id \in DOMAIN background
    /\ background[task_id].pc = "awaiting"
    /\ crawl_call[task_id].state = "running"
    /\ crawl_call' = [crawl_call EXCEPT ![task_id] = [state |-> "raised", exc |-> e]]
    /\ crawl_tasks' = [ t \in DOMAIN crawl_tasks |->
                          IF crawl_tasks[t].status = "in_progress"
                          THEN DictUpdate(crawl_tasks[t], [ status |-> "failed",
                                                            finish_time |-> now,
                                                            error |-> e ])
                          ELSE crawl_tasks[t] ]
    /\ background' = [background EXCEPT ![task_id].pc = "done"]
    /\ response' = NoResponse
    /\ UNCHANGED submissions

\* (mutation of crawl_task_raised: after recording the failure the runner is
\* scheduled again, to retry the crawl under the same task id)
crawl_task_raised_retry(task_id, e, now) ==
    /\ task_id \in DOMAIN background
    /\ background[task_id].pc = "awaiting"
    /\ crawl_call[task_id].state = "running"
    /\ crawl_call' = [crawl_call EXCEPT ![task_id] = [state |-> "raised", exc |-> e]]
    /\ crawl_tasks' = [crawl_tasks EXCEPT ![task_id] =
                          DictUpdate(@, [ status |-> "failed",
                                          finish_time |-> now,
                                          error |-> e ])]
    /\ background' = [background EXCEPT ![task_id].pc = "scheduled"]
    /\ response' = NoResponse
    /\ UNCHANGED submissions

\* (mutation of crawl_task_raised: the failure is recorded without its
\* finish time)
crawl_task_raised_unstamped(task_id, e, now) ==
    /\ task_id \in DOMAIN background
    /\ background[task_id].pc = "awaiting"
    /\ crawl_call[task_id].state = "running"
    /\ crawl_call' = [crawl_call EXCEPT ![task_id] = [state |-> "raised", exc |-> e]]
    /\ crawl_tasks' = [crawl_tasks EXCEPT ![task_id] =
                          DictUpdate(@, [ status |-> "failed", error |-> e ])]
    /\ background' = [background EXCEPT ![task_id].pc = "done"]
    /\ response' = NoResponse
    /\ UNCHANGED submissions

\* the collaborator raises an exception whose str() is e; the runner's except
\* branch records the failure
crawl_task_raised(task_id, e, now) ==
    /\ task_id \in DOMAIN background
    /\ background[task_id].pc = "awaiting"
    /\ crawl_call[task_id].state = "running"
    /\ crawl_call' = [crawl_call EXCEPT ![task_id] = [state |-> "raised", exc |-> e]]
    /\ crawl_tasks' = [crawl_tasks EXCEPT ![task_id] =
                          DictUpdate(@, [ status |-> "failed",
                                          finish_time |-> now,
                                          error |-> e ])]
    /\ background' = [background EXCEPT ![task_id].pc = "done"]
    /\ response' = NoResponse
    /\ UNCHANGED submissions

\* the collaborator call never finishes (no timeout is set on it)
crawl_website_hangs(task_id) ==
    /\ task_id \in DOMAIN background
    /\ background[task_id].pc = "awaiting"
    /\ crawl_call[task_id].state = "running"
    /\ crawl_call' = [crawl_call EXCEPT ![task_id] = [state |-> "hung"]]
    /\ response' = NoResponse
    /\ UNCHANGED <<crawl_tasks, background, submissions>>

\* (mutation of crawl_status_response: crawl_tasks.get(task_id, {...}) -- an
\* unknown id is answered 200 with a placeholder record)
crawl_status_response_default(task_id) ==
    [ endpoint |-> "get_crawl_status", request |-> task_id, status_code |-> 200,
      body |-> WithTaskId(task_id,
                          IF task_id \in DOMAIN crawl_tasks THEN crawl_tasks[task_id]
                          ELSE [status |-> "pending"]) ]

\* the CrawlStatus response of GET /crawl/{task_id} in the current state
crawl_status_response(task_id) ==
    IF task_id \notin DOMAIN crawl_tasks
    THEN [ endpoint |-> "get_crawl_status", request |-> task_id, status_code |-> 404 ]
    ELSE [ endpoint |-> "get_crawl_status", request |-> task_id, status_code |-> 200,
           body |-> WithTaskId(task_id, crawl_tasks[task_id]) ]

\* GET /crawl/{task_id}
get_crawl_status(task_id) ==
    /\ response' = crawl_status_response(task_id)
    /\ UNCHANGED <<crawl_tasks, background, crawl_call, submissions>>

\* GET /crawls
list_crawl_tasks ==
    /\ response' = [ endpoint |-> "list_crawl_tasks", status_code |-> 200,
                     body |-> [ tasks |-> { WithTaskId(task_id, crawl_tasks[task_id]) :
                                            task_id \in DOMAIN crawl_tasks } ] ]
    /\ UNCHANGED <<crawl_tasks, background, crawl_call, submissions>>

----------------------------------------------------------------------------
(* The vector store (chromadb), an external collaborator: what it answers *)
(* to one call is an input of the step                                     *)

\* json.dumps / json.loads: the text wraps the value it encodes
JsonDumps(v) == <<"json", v>>
JsonLoads(text) == text[2]

\* what chroma_client.list_collections() does: it raises, or returns names
StoreListings ==
    { [ok |-> FALSE, exc |-> "storage error"],
      [ok |-> TRUE, collections |-> <<>>],
      [ok |-> TRUE, collections |-> <<"docs", "web_content">>] }

\* crawler.list_collections: every exception becomes an "error" document
list_collections(store) ==
    IF store.ok
    THEN JsonDumps([ collections |->
                       [i \in 1..Len(store.collections) |-> [name |-> store.collections[i]]] ])
    ELSE JsonDumps([ error |-> store.exc, message |-> "Failed to list collections." ])

\* GET /collections: list_collections never raises, so the handler's except
\* branch (500) is never taken
get_collections(store) ==
    /\ response' = [ endpoint |-> "get_collections", store |-> store, status_code |-> 200,
                     body |-> JsonLoads(list_collections(store)) ]
    /\ UNCHANGED <<crawl_tasks, background, crawl_call, submissions>>

\* the i-th nearest document of the store: its text and length, its metadata
\* and its distance in hundredths (0.2, 1.5, 0, 0.2, ...)
Hit(i) ==
    [ document |-> [text |-> i, len |-> IF i % 2 = 0 THEN PreviewLen + 1 ELSE PreviewLen],
      metadata |-> [depth |-> i - 1],
      distance |-> <<20, 150, 0>>[((i - 1) % 3) + 1] ]

\* the store returns the n nearest documents it holds, nearest first
HitSeqs == { [i \in 1..n |-> Hit(i)] : n \in 0..MaxHits }

\* what the store does on one query: the client cannot be opened, the
\* collection does not exist, the query raises, or hits come back
StoreAnswers ==
    { [kind |-> "client_error", exc |-> "storage error"],
      [kind |-> "no_collection", exc |-> "collection does not exist"],
      [kind |-> "query_error", exc |-> "storage error"] }
    \cup { [kind |-> "results", hits |-> h] : h \in HitSeqs }

\* collection.query(...): one list per query text
QueryResults(hits) ==
    [ documents |-> << [i \in 1..Len(hits) |-> hits[i].document] >>,
      metadatas |-> << [i \in 1..Len(hits) |-> hits[i].metadata] >>,
      distances |-> << [i \in 1..Len(hits) |-> hits[i].distance] >> ]

\* doc[:300] + "..." if len(doc) > 300 else doc
Preview(doc) ==
    IF doc.len > PreviewLen
    THEN [text |-> doc.text, len |-> PreviewLen + 3, ellipsis |-> TRUE]
    ELSE doc

\* (mutation of ResponseData: the score is clamped to the range 0..1)
ResponseDataClamped(results) ==
    IF Len(results.documents) > 0
    THEN LET documents == results.documents[1]
             metadatas == results.metadatas[1]
             distances == results.distances[1]
         IN  [ i \in 1..Len(documents) |->
                 [ rank |-> i,
                   relevance_score |-> IF One - distances[i] < 0 THEN 0
                                       ELSE IF One - distances[i] > One THEN One
                                       ELSE One - distances[i],
                   metadata |-> metadatas[i],
                   content_preview |-> Preview(documents[i]),
                   full_content |-> documents[i] ] ]
    ELSE <<>>

\* the result entries built from the store's results
ResponseData(results) ==
    IF Len(results.documents) > 0
    THEN LET documents == results.documents[1]
             metadatas == results.metadatas[1]
             distances == results.distances[1]
         IN  [ i \in 1..Len(documents) |->
                 [ rank |-> i,
                   relevance_score |-> One - distances[i],
                   metadata |-> metadatas[i],
                   content_preview |-> Preview(documents[i]),
                   full_content |-> documents[i] ] ]
    ELSE <<>>

\* (mutation of query_chromadb: an empty result is reported as an error)
query_chromadb_empty_is_error(collection_name, query, n_results, store) ==
    IF store.kind # "results" \/ Len(ResponseData(QueryResults(store.hits))) = 0
    THEN JsonDumps([ error |-> "no results",
                     message |-> <<"Failed to query collection '", collection_name,
                                   "'. Make sure the collection exists and contains documents.">> ])
    ELSE LET response_data == ResponseData(QueryResults(store.hits))
         IN  JsonDumps([ collection |-> collection_name,
                         query |-> query,
                         num_results |-> Len(response_data),
                         results |-> response_data ])

\* crawler.query_chromadb: every exception becomes an "error" document
query_chromadb(collection_name, query, n_results, store) ==
    IF store.kind # "results"
    THEN JsonDumps([ error |-> store.exc,
                     message |-> <<"Failed to query collection '", collection_name,
                                   "'. Make sure the collection exists and contains documents.">> ])
    ELSE LET response_data == ResponseData(QueryResults(store.hits))
         IN  IF Len(response_data) > 0
             THEN JsonDumps([ collection |-> collection_name,
                              query |-> query,
                              num_results |-> Len(response_data),
                              results |-> response_data ])
             ELSE JsonDumps([ collection |-> collection_name,
                              query |-> query,
                              num_results |-> 0,
                              message |-> "No results found for this query in the collection." ])

\* JSON bodies of POST /query
QueryBodies == { [collection_name |-> c, query |-> "crawling"] : c \in CollectionNames }

\* QueryRequest(**body)
QueryRequest(body) ==
    [ collection_name |-> body.collection_name,
      query |-> body.query,
      n_results |-> IF "n_results" \in DOMAIN body THEN body.n_results ELSE DefaultNResults ]

\* the response of POST /query for this body and this answer of the store
query_response(body, store) ==
    LET query_request == QueryRequest(body)
        results_data == JsonLoads(query_chromadb(query_request.collection_name,
                                                 query_request.query,
                                                 query_request.n_results, store))
    IN  IF "error" \in DOMAIN results_data
        THEN [ endpoint |-> "query_collection", request |-> body, store |-> store,
               status_code |-> 400, detail |-> results_data.message ]
        ELSE [ endpoint |-> "query_collection", request |-> body, store |-> store,
               status_code |-> 200, body |-> results_data ]

\* POST /query
query_collection(body, store) ==
    /\ store.kind = "results" => Len(store.hits) <= QueryRequest(body).n_results
    /\ response' = query_response(body, store)
    /\ UNCHANGED <<crawl_tasks, background, crawl_call, submissions>>

----------------------------------------------------------------------------
Next ==
    \/ \E body \in CrawlBodies : start_crawl_rejected(body)
    \/ \E body \in CrawlBodies, task_id \in TaskIds, now \in Times :
          start_crawl(body, task_id, now)
    \/ \E task_id \in TaskIds : crawl_task_start(task_id)
    \/ \E task_id \in TaskIds, counter \in PageCounts, now \in Times :
          crawl_website_returns(task_id, counter, now)
    \/ \E task_id \in TaskIds, e \in CrawlErrors, now \in Times :
          crawl_task_raised(task_id, e, now)
    \/ \E task_id \in TaskIds : crawl_website_hangs(task_id)
    \/ \E task_id \in TaskIds : get_crawl_status(task_id)
    \/ list_crawl_tasks
    \/ \E store \in StoreListings : get_collections(store)
    \/ \E body \in QueryBodies, store \in StoreAnswers : query_collection(body, store)

Spec == Init /\ [][Next]_vars

\* the event loop runs every scheduled background task, and a collaborator
\* call that is running returns, raises or hangs
Fairness ==
    \A task_id \in TaskIds :
        /\ WF_vars(crawl_task_start(task_id))
        /\ WF_vars(\/ crawl_website_hangs(task_id)
                   \/ \E e \in CrawlErrors, now \in Times : crawl_task_raised(task_id, e, now)
                   \/ \E counter \in PageCounts, now \in Times :
                         crawl_website_returns(task_id, counter, now))

\* the task lifecycle alone: submissions, runners and collaborator calls (the
\* read handlers and the store facade write none of its variables)
LifecycleNext ==
    \/ \E body \in CrawlBodies, task_id \in TaskIds, now \in Times :
          start_crawl(body, task_id, now)
    \/ \E task_id \in TaskIds : crawl_task_start(task_id)
    \/ \E task_id \in TaskIds, counter \in PageCounts, now \in Times :
          crawl_website_returns(task_id, counter, now)
    \/ \E task_id \in TaskIds, e \in CrawlErrors, now \in Times :
          crawl_task_raised(task_id, e, now)
    \/ \E task_id \in TaskIds : crawl_website_hangs(task_id)

FairSpec == Init /\ [][LifecycleNext]_vars /\ Fairness

----------------------------------------------------------------------------
(* The runner on any summary text: one task, whose collaborator returns any *)
(* token sequence up to MaxSummaryLen, or the summary of crawl_website      *)

SummaryTokens == {PREFIX, PAGES, "4", "2", "x"}

Summaries ==
    UNION { [1..n -> SummaryTokens] : n \in 0..MaxSummaryLen }
    \cup { CrawlSummary(counter, "x") : counter \in PageCounts }

SummaryNext ==
    \/ \E now \in Times : start_crawl([url |-> <<"https", "://", "example.com">>], 1, now)
    \/ crawl_task_start(1)
    \/ /\ 1 \in DOMAIN crawl_call
       /\ crawl_call[1].state = "running"
       /\ \E result \in Summaries, now \in Times : crawl_task_returned(1, result, now)

SpecSummary == Init /\ [][SummaryNext]_vars

----------------------------------------------------------------------------
(* Properties *)

Terminal == {"completed", "failed"}
StatusMoves ==
    { <<"pending", "in_progress">>, <<"in_progress", "completed">>, <<"in_progress", "failed">> }

\* C1: in every step every record stays in the registry and its status either
\* stays or moves along pending -> in_progress -> completed | failed; hence a
\* completed or failed status never changes and pending never jumps to a
\* terminal status.
C1_StatusMonotonic ==
    [][ \A t \in DOMAIN crawl_tasks :
          /\ t \in DOMAIN crawl_tasks'
          /\ \/ crawl_tasks'[t].status = crawl_tasks[t].status
             \/ <<crawl_tasks[t].status, crawl_tasks'[t].status>> \in StatusMoves ]_vars

\* one task has reached a terminal status while another is in progress
C1_Witness ==
    \E t, u \in DOMAIN crawl_tasks :
        crawl_tasks[t].status \in Terminal /\ crawl_tasks[u].status = "in_progress"

\* C2: when start_crawl has just answered 200 with a task id, the registry
\* holds a record for that id and the status lookup of that id answers 200
\* with status pending or in_progress; and no record is completed or failed
\* while its runner has not started.
C2_IdRetrievableOnReturn ==
    /\ (response.endpoint = "start_crawl" /\ response.status_code = 200) =>
          LET id == response.body.task_id
              lookup == crawl_status_response(id)
          IN  /\ id \in DOMAIN crawl_tasks
              /\ lookup.status_code = 200
              /\ lookup.body.task_id = id
              /\ lookup.body.status \in {"pending", "in_progress"}
    /\ \A t \in DOMAIN background :
          background[t].pc = "scheduled" =>
             t \in DOMAIN crawl_tasks /\ crawl_tasks[t].status \notin Terminal

\* a submission has just returned while an earlier task is already running
C2_Witness ==
    /\ response.endpoint = "start_crawl"
    /\ response.status_code = 200
    /\ \E t \in DOMAIN crawl_tasks :
          t # response.body.task_id /\ crawl_tasks[t].status # "pending"

\* C3: a submission whose url is not a well-formed absolute url is answered
\* 422 (a 4xx) and the step leaves the registry and the scheduled background
\* runs unchanged.
C3_MalformedUrlRejected ==
    [][ (response'.endpoint = "start_crawl" /\ ~WellFormedAbsolute(response'.request.url)) =>
          /\ response'.status_code = 422
          /\ crawl_tasks' = crawl_tasks
          /\ background' = background ]_vars

\* "not-a-url" has just been rejected while the registry holds a task
C3_Witness ==
    /\ response.endpoint = "start_crawl"
    /\ response.request.url = <<"not-a-url">>
    /\ response.status_code = 422
    /\ DOMAIN crawl_tasks # {}

\* C4: whenever the collaborator has raised for a task, the runner has ended
\* normally and the task's record is failed, carries a finish time and
\* carries as error the string of the exception.
C4_FailureCaptured ==
    \A t \in DOMAIN crawl_call :
        crawl_call[t].state = "raised" =>
          /\ background[t].pc = "done"
          /\ crawl_tasks[t].status = "failed"
          /\ "finish_time" \in DOMAIN crawl_tasks[t]
          /\ crawl_tasks[t].finish_time \in Times
          /\ "error" \in DOMAIN crawl_tasks[t]
          /\ crawl_tasks[t].error = crawl_call[t].exc

\* the collaborator has raised for a task while another task is still running
C4_Witness ==
    \E t, u \in DOMAIN crawl_call :
        crawl_call[t].state = "raised" /\ crawl_call[u].state = "running"

\* C5: the registry holds exactly as many records as submissions were
\* accepted, and a listing returns exactly that many records, with pairwise
\* distinct task ids.
C5_OneRecordPerSubmission ==
    /\ Cardinality(DOMAIN crawl_tasks) = submissions
    /\ response.endpoint = "list_crawl_tasks" =>
          LET tasks == response.body.tasks
          IN  /\ Cardinality(tasks) = submissions
              /\ Cardinality({ r.task_id : r \in tasks }) = submissions

\* a listing made after two submissions
C5_Witness ==
    /\ response.endpoint = "list_crawl_tasks"
    /\ submissions >= 2
    /\ Cardinality(response.body.tasks) >= 2

\* C6: a task's terminal status and fields are those of its own collaborator
\* call (returned: completed with the parsed page count; raised: failed with
\* the exception's string; still running or hung: not terminal); a step
\* writes at most one record, the one of the runner that moved; and under
\* fair scheduling every submitted task becomes terminal unless its own
\* collaborator call hangs.
C6_OwnOutcome(t) ==
    LET rec == crawl_tasks[t]
        state == IF t \in DOMAIN crawl_call THEN crawl_call[t].state ELSE "none"
    IN  /\ rec.status = "completed" <=> state = "returned"
        /\ rec.status = "failed" <=> state = "raised"
        /\ state = "returned" => rec.pages_crawled = PagesCrawled(crawl_call[t].result)
        /\ state = "raised" => rec.error = crawl_call[t].exc

C6_IndependentOutcomes ==
    /\ [](\A t \in DOMAIN crawl_tasks : C6_OwnOutcome(t))
    /\ [][ \A t \in DOMAIN crawl_tasks :
             crawl_tasks'[t] # crawl_tasks[t] =>
                /\ background'[t] # background[t]
                /\ \A u \in DOMAIN crawl_tasks \ {t} :
                      crawl_tasks'[u] = crawl_tasks[u] /\ background'[u] = background[u] ]_vars
    /\ \A t \in TaskIds :
          (t \in DOMAIN crawl_tasks) ~>
             /\ t \in DOMAIN crawl_tasks
             /\ \/ crawl_tasks[t].status \in Terminal
                \/ t \in DOMAIN crawl_call /\ crawl_call[t].state = "hung"

\* of two tasks submitted to different collections, one has failed and the
\* other has completed
C6_Witness ==
    \E t, u \in DOMAIN crawl_tasks :
        /\ crawl_tasks[t].collection_name # crawl_tasks[u].collection_name
        /\ crawl_tasks[t].status = "failed" /\ crawl_call[t].state = "raised"
        /\ crawl_tasks[u].status = "completed" /\ crawl_call[u].state = "returned"

\* C7: a status lookup answers 404 exactly when its id was never returned by
\* a submission; for a known id it answers 200 with the task id and exactly
\* the fields of the task's current record, the required ones among them;
\* and the lookup step leaves the registry unchanged.
C7_LookupAnswer ==
    response.endpoint = "get_crawl_status" =>
       LET id == response.request
       IN  IF id \notin DOMAIN background
           THEN response.status_code = 404
           ELSE /\ response.status_code = 200
                /\ response.body.task_id = id
                /\ DOMAIN response.body = {"task_id"} \cup DOMAIN crawl_tasks[id]
                /\ {"url", "collection_name", "status", "start_time"} \subseteq DOMAIN response.body
                /\ \A k \in DOMAIN crawl_tasks[id] : response.body[k] = crawl_tasks[id][k]

C7_StatusLookup ==
    /\ []C7_LookupAnswer
    /\ [][ response'.endpoint = "get_crawl_status" =>
             crawl_tasks' = crawl_tasks /\ background' = background ]_vars

\* an unknown id has just been answered 404 while the registry holds a task
C7_Witness ==
    /\ response.endpoint = "get_crawl_status"
    /\ response.status_code = 404
    /\ DOMAIN crawl_tasks # {}

\* the phrase "Successfully crawled <digits> pages" lies at positions i..j
C8_Phrase(r, i, j) ==
    /\ r[i] = PREFIX
    /\ j > i + 1
    /\ r[j] = PAGES
    /\ \A k \in (i + 1)..(j - 1) : IsDigit(r[k])

\* the number written by the digits at positions i..j, read left to right
RECURSIVE C8_Number(_, _, _, _)
C8_Number(r, i, j, acc) ==
    IF i > j THEN acc ELSE C8_Number(r, i + 1, j, 10 * acc + DigitVal(r[i]))

\* C8: when the collaborator has returned a summary, the task is completed,
\* without error; pages_crawled is the integer of the (leftmost) phrase
\* "Successfully crawled N pages" of the summary, None when the summary has
\* no such phrase, and 42 for the summary of a crawl of 42 pages.
C8_PageCount ==
    \A t \in DOMAIN crawl_call :
        crawl_call[t].state = "returned" =>
           LET r == crawl_call[t].result
               rec == crawl_tasks[t]
               phrases == { p \in (1..Len(r)) \X (1..Len(r)) : C8_Phrase(r, p[1], p[2]) }
           IN  /\ rec.status = "completed"
               /\ "error" \notin DOMAIN rec
               /\ "pages_crawled" \in DOMAIN rec
               /\ phrases = {} => rec.pages_crawled = None
               /\ phrases # {} =>
                     \E p \in phrases :
                        /\ \A q \in phrases : p[1] <= q[1]
                        /\ rec.pages_crawled = Some(C8_Number(r, p[1] + 1, p[2] - 1, 0))
               /\ r = CrawlSummary(42, "x") => rec.pages_crawled = Some(42)

\* the summary of a crawl of 42 pages has been recorded as 42 pages
C8_Witness ==
    \E t \in DOMAIN crawl_call :
        /\ crawl_call[t].state = "returned"
        /\ crawl_call[t].result = CrawlSummary(42, "x")
        /\ crawl_tasks[t].pages_crawled = Some(42)

\* the answers of the store that are failures other than a missing collection
C9_OtherFailures == { a \in StoreAnswers : a.kind \in {"client_error", "query_error"} }

\* the part of a query response the client sees
C9_Seen(r) == [ status_code |-> r.status_code,
                detail |-> IF "detail" \in DOMAIN r THEN r.detail ELSE None,
                body |-> IF "body" \in DOMAIN r THEN r.body ELSE None ]

\* a query of an existing collection that yields no hit is answered 200 with
\* num_results = 0 and neither an error nor results
C9_Empty ==
    (response.endpoint = "query_collection" /\ response.store.kind = "results"
       /\ response.store.hits = <<>>) =>
          /\ response.status_code = 200
          /\ response.body.num_results = 0
          /\ "error" \notin DOMAIN response.body
          /\ "results" \notin DOMAIN response.body

\* C9 as claimed: a query of a collection that does not exist is answered by
\* an error that no other store failure is answered by; a query without hits
\* is answered Empty.
C9_Original ==
    /\ (response.endpoint = "query_collection" /\ response.store.kind = "no_collection") =>
          /\ response.status_code \in 400..499
          /\ \A a \in C9_OtherFailures :
                C9_Seen(query_response(response.request, a)) # C9_Seen(response)
    /\ C9_Empty

\* C9 as amended: a query of a collection that does not exist is answered 400
\* with the generic "Failed to query collection" detail, the very answer any
\* other store failure gets; a query without hits is answered Empty.
C9_QueryOutcomes ==
    /\ (response.endpoint = "query_collection" /\ response.store.kind = "no_collection") =>
          /\ response.status_code = 400
          /\ response.detail[1] = "Failed to query collection '"
          /\ response.detail[2] = response.request.collection_name
          /\ \A a \in C9_OtherFailures :
                C9_Seen(query_response(response.request, a)) = C9_Seen(response)
    /\ C9_Empty

\* a query of a missing collection has just been answered
C9_Witness ==
    /\ response.endpoint = "query_collection"
    /\ response.store.kind = "no_collection"
    /\ response.status_code = 400

\* C10 as claimed: when the store fails while listing collections,
\* GET /collections answers 500, never a successful response.
C10_StoreFailureIs500 ==
    (response.endpoint = "get_collections" /\ ~response.store.ok) =>
        response.status_code = 500

\* C11: when the store returns hits, the answer of POST /query has one entry
\* per hit, in the store's order; the entry of the hit at 0-based position p
\* has rank p + 1 and relevance score 1 - d for the hit's distance d, whatever
\* d is (no clamping: a distance above 1 gives a negative score), and a
\* distance of 0.2 gives the score 0.8.
C11_ScoreAndRank ==
    ( /\ response.endpoint = "query_collection"
      /\ response.store.kind = "results"
      /\ Len(response.store.hits) > 0 ) =>
        LET hits == response.store.hits
        IN  /\ response.status_code = 200
            /\ response.body.num_results = Len(hits)
            /\ Len(response.body.results) = Len(hits)
            /\ \A p \in 0..(Len(hits) - 1) :
                  LET entry == response.body.results[p + 1]
                      d == hits[p + 1].distance
                  IN  /\ entry.rank = p + 1
                      /\ entry.relevance_score = One - d
                      /\ entry.full_content = hits[p + 1].document
                      /\ (d = 20) => entry.relevance_score = 80
                      /\ (d > One) => entry.relevance_score < 0

\* a query has just been answered with two hits, the first at distance 0.2
\* and the second at a distance above 1
C11_Witness ==
    /\ response.endpoint = "query_collection"
    /\ response.store.kind = "results"
    /\ Len(response.store.hits) = 2
    /\ response.store.hits[1].distance = 20
    /\ response.store.hits[2].distance > One
    /\ response.status_code = 200
    /\ response.body.results[2].rank = 2

\* the collaborator call of task t never finishes
Hung(t) == t \in DOMAIN crawl_call /\ crawl_call[t].state = "hung"

\* C12: under fair scheduling every submitted task leaves pending, and every
\* task that is not terminal either becomes completed or failed or is one
\* whose collaborator call never finishes; nothing cancels a task: a record
\* is never removed, it leaves pending only when its runner starts, it leaves
\* in_progress only when its own collaborator call returns or raises, and a
\* task whose call never finishes stays in_progress.
C12_EventuallyTerminal ==
    /\ \A t \in TaskIds :
          (t \in DOMAIN crawl_tasks /\ crawl_tasks[t].status = "pending") ~>
             (t \in DOMAIN crawl_tasks /\ crawl_tasks[t].status # "pending")
    /\ \A t \in TaskIds :
          (t \in DOMAIN crawl_tasks /\ crawl_tasks[t].status \notin Terminal) ~>
             (t \in DOMAIN crawl_tasks /\ (crawl_tasks[t].status \in Terminal \/ Hung(t)))
    /\ [][ \A t \in DOMAIN crawl_tasks :
             /\ t \in DOMAIN crawl_tasks'
             /\ (crawl_tasks[t].status = "pending" /\ crawl_tasks'[t].status # "pending") =>
                   /\ crawl_tasks'[t].status = "in_progress"
                   /\ background[t].pc = "scheduled" /\ background'[t].pc = "awaiting"
             /\ (crawl_tasks[t].status = "in_progress" /\ crawl_tasks'[t].status # "in_progress") =>
                   /\ crawl_tasks'[t].status \in Terminal
                   /\ crawl_call[t].state = "running"
                   /\ crawl_call'[t].state \in {"returned", "raised"}
             /\ Hung(t) => (crawl_tasks'[t].status = "in_progress" /\ crawl_call'[t] = crawl_call[t])
          ]_vars

\* one task has completed on its collaborator's return while the call of
\* another, still in_progress, never finishes
C12_Witness ==
    \E t, u \in DOMAIN crawl_tasks :
        /\ crawl_tasks[t].status = "completed" /\ crawl_call[t].state = "returned"
        /\ "finish_time" \in DOMAIN crawl_tasks[t]
        /\ crawl_tasks[u].status = "in_progress" /\ Hung(u)

\* C13: the collaborator is called at most once per task id. A call is made
\* only for an id that has no call yet, by that id's runner going from
\* scheduled to awaiting; a call that exists only moves from running to
\* returned, raised or never finishing and is never replaced by a new one; a
\* runner that has started is never scheduled again; once a record is
\* completed or failed its call and its runner do not change; and a new
\* submission creates an id that has no record, no runner and no call.
C13_OneCallPerTask ==
    [][ /\ \A t \in DOMAIN crawl_call :
             /\ t \in DOMAIN crawl_call'
             /\ crawl_call'[t] # crawl_call[t] =>
                   (crawl_call[t].state = "running" /\ crawl_call'[t].state # "running")
        /\ \A t \in DOMAIN crawl_call' \ DOMAIN crawl_call :
             /\ crawl_call'[t].state = "running"
             /\ background[t].pc = "scheduled" /\ background'[t].pc = "awaiting"
        /\ \A t \in DOMAIN background :
             /\ t \in DOMAIN background'
             /\ background[t].pc # "scheduled" => background'[t].pc # "scheduled"
        /\ \A t \in DOMAIN crawl_tasks :
             crawl_tasks[t].status \in Terminal =>
                (crawl_call'[t] = crawl_call[t] /\ background'[t] = background[t])
        /\ \A t \in DOMAIN crawl_tasks' \ DOMAIN crawl_tasks :
             /\ t \notin DOMAIN crawl_call /\ t \notin DOMAIN background
             /\ t \notin DOMAIN crawl_call' /\ background'[t].pc = "scheduled"
             /\ submissions' = submissions + 1
      ]_vars

\* a task has failed, and the same url and collection, submitted again, are
\* being crawled under a different task id
C13_Witness ==
    \E t, u \in DOMAIN crawl_tasks :
        /\ t # u
        /\ crawl_tasks[t].status = "failed" /\ crawl_call[t].state = "raised"
        /\ crawl_tasks[u].url = crawl_tasks[t].url
        /\ crawl_tasks[u].collection_name = crawl_tasks[t].collection_name
        /\ u \in DOMAIN crawl_call /\ crawl_call[u].state = "running"

C15_CreationKeys == {"url", "collection_name", "start_time"}

\* the keys the runner writes
C15_RunnerKeys == {"status", "finish_time", "pages_crawled", "error"}

\* the handlers that only read
C15_Readers == {"get_crawl_status", "list_crawl_tasks", "get_collections", "query_collection"}

\* C15: in every step every existing record keeps its url, collection_name
\* and start_time; the keys whose presence or value changes are among status,
\* finish_time, pages_crawled and error; a record changes only in a step of
\* its own runner (no handler's step, and no other task's runner); and the
\* steps of status lookup, task listing, collection listing and query leave
\* the whole registry unchanged.
C15_OnlyRunnerWrites ==
    [][ /\ \A t \in DOMAIN crawl_tasks :
             /\ t \in DOMAIN crawl_tasks'
             /\ \A k \in C15_CreationKeys :
                   /\ k \in DOMAIN crawl_tasks[t]
                   /\ k \in DOMAIN crawl_tasks'[t]
                   /\ crawl_tasks'[t][k] = crawl_tasks[t][k]
             /\ \A k \in (DOMAIN crawl_tasks[t]) \cup (DOMAIN crawl_tasks'[t]) :
                   ( \/ k \notin DOMAIN crawl_tasks[t]
                     \/ k \notin DOMAIN crawl_tasks'[t]
                     \/ crawl_tasks'[t][k] # crawl_tasks[t][k] ) => k \in C15_RunnerKeys
             /\ crawl_tasks'[t] # crawl_tasks[t] =>
                   /\ background'[t].pc # background[t].pc
                   /\ response' = NoResponse
                   /\ \A u \in DOMAIN background \ {t} : background'[u] = background[u]
        /\ response'.endpoint \in C15_Readers => crawl_tasks' = crawl_tasks
      ]_vars

\* a runner has completed its record, which still has the url and collection
\* its runner was scheduled with, and the task listing has just been answered
C15_Witness ==
    /\ response.endpoint = "list_crawl_tasks"
    /\ \E t \in DOMAIN crawl_tasks :
          /\ crawl_tasks[t].status = "completed"
          /\ "pages_crawled" \in DOMAIN crawl_tasks[t]
          /\ crawl_tasks[t].url = background[t].url
          /\ crawl_tasks[t].collection_name = background[t].collection_name
          /\ crawl_tasks[t].start_time \in Times

\* C16: every record of the registry is consistent with its status: it has a
\* finish_time exactly when it is completed or failed, an error exactly when
\* it is failed, a pages_crawled only when it is completed (and then always,
\* possibly None), and none of the three while it is pending or in_progress.
C16_RecordConsistent ==
    \A t \in DOMAIN crawl_tasks :
        LET rec == crawl_tasks[t]
            keys == DOMAIN rec
        IN  /\ rec.status \in {"pending", "in_progress", "completed", "failed"}
            /\ "finish_time" \in keys <=> rec.status \in Terminal
            /\ "error" \in keys <=> rec.status = "failed"
            /\ "pages_crawled" \in keys <=> rec.status = "completed"
            /\ rec.status \in {"pending", "in_progress"} =>
                  keys \cap {"finish_time", "error", "pages_crawled"} = {}
            /\ "finish_time" \in keys => rec.finish_time \in Times
            /\ "error" \in keys => rec.error \in CrawlErrors

\* the registry holds a failed record, with its error and finish time, next
\* to a record that is not terminal
C16_Witness ==
    \E t, u \in DOMAIN crawl_tasks :
        /\ crawl_tasks[t].status = "failed"
        /\ "error" \in DOMAIN crawl_tasks[t]
        /\ "finish_time" \in DOMAIN crawl_tasks[t]
        /\ "pages_crawled" \notin DOMAIN crawl_tasks[t]
        /\ crawl_tasks[u].status \in {"pending", "in_progress"}
        /\ DOMAIN crawl_tasks[u] = {"url", "collection_name", "status", "start_time"}

====
